---- MODULE Spec2Model ----
(***************************************************************************)
(* Model of contracts/src/api/proofs/ZKExactGeoPointCircuitProof.ts:       *)
(* a proof wrapper that binds an opaque proof handle to a claimed          *)
(* ZKGeoPoint, verifies it behind a caching middleware, and derives an     *)
(* exact-point proof from a provider proof.                                *)
(***************************************************************************)
EXTENDS Integers, Sequences, FiniteSets, TLC

\* ---------------------------------------------------------------- bounds
MaxWrappers == 2        \* wrapper instances constructed in one run
MaxEngineCalls == 2     \* engine checks (uncached verifications) in one run
MaxDerivations == 1     \* calls of fromZKGeoPointProviderProof in one run

\* ------------------------------------------------------------ value sets
\* ZKGeoPoint claims: the points (40,-74) and (41,-74).
Claims == [lat : {40, 41}, lon : {-74}]
NoClaim == [lat |-> 0, lon |-> 0]

\* ZKGeoPoint.hash(): a deterministic digest of the point into a small field.
hash(c) == (c.lat + 2 * c.lon) % 3
Hashes == {hash(c) : c \in Claims}

\* An opaque proof handle: the commitment in its public output
\* (publicOutput.geoPointHash) and whether the engine accepts it.
Handles == [geoPointHash : Hashes, valid : BOOLEAN]
NoHandle == [geoPointHash |-> -1, valid |-> FALSE]

\* The serialized form of a proof handle (JsonProof of the engine).
JsonProofs == [publicOutput : {<<h>> : h \in Hashes}, proof : {"ok", "tampered"}]

Kinds == {"provider", "exact"}
Outcomes == {"ok", "CryptographicVerificationFailure", "ClaimMismatch", "DerivationFailure"}

\* ----------------------------------------------------------------- state
VARIABLES
    wrappers,      \* the constructed wrapper instances; identity = index
    args,          \* history: the arguments each instance's constructor was given
    cache,         \* success markers of the caching middleware
    calls,         \* per instance: engine checks and claim-binding checks run
    everVerified,  \* history: instances on which a verify() completed successfully
    derivs,        \* the calls of fromZKGeoPointProviderProof
    transformCalls,\* calls of ExactGeoPointCircuit.fromGeoPointProvider
    lastOp         \* the last operation, its outcome and what it did, in order

vars == <<wrappers, args, cache, calls, everVerified, derivs, transformCalls, lastOp>>

Instances == DOMAIN wrappers

NoOp == [op |-> "none", w |-> 0, outcome |-> "ok", claim |-> NoClaim,
         handle |-> NoHandle, events |-> <<>>]

\* ---------------------------------------------------------- the wrapper
\* The constructor without its this.claimedZKGeoPoint assignment.
constructorDropsClaim(zkGeoPoint, proof) ==
    [kind |-> "exact", proof |-> proof, claimedZKGeoPoint |-> NoClaim]

\* constructor(zkGeoPoint, proof): this.proof = proof; this.claimedZKGeoPoint = zkGeoPoint
constructor(zkGeoPoint, proof) ==
    [kind |-> "exact", proof |-> proof, claimedZKGeoPoint |-> zkGeoPoint]

\* The source wrapper kind of the derivation, ZKGeoPointProviderCircuitProof.
providerConstructor(zkGeoPoint, proof) ==
    [kind |-> "provider", proof |-> proof, claimedZKGeoPoint |-> zkGeoPoint]

\* ZKLocusProof.verify(): the engine's cryptographic check of the handle.
superVerify(this) ==
    IF this.proof.valid THEN "ok" ELSE "CryptographicVerificationFailure"

\* The claim check with its throw lost: a difference is only logged.
assertGeoPointIsTheClaimedOneLogsOnly(this) == "ok"

\* assertGeoPointIsTheClaimedOne(): compare the commitment in the proof's
\* public output with the hash of the claimed point; throw on a difference.
assertGeoPointIsTheClaimedOne(this) ==
    IF this.proof.geoPointHash # hash(this.claimedZKGeoPoint)
    THEN "ClaimMismatch"
    ELSE "ok"

\* verify() that runs the engine's check a second time after the claim check.
verifyChecksTwice(this) ==
    LET s == superVerify(this) IN
    IF s # "ok"
    THEN [outcome |-> s, events |-> <<"engine">>]
    ELSE [outcome |-> assertGeoPointIsTheClaimedOne(this),
          events |-> <<"engine", "bind", "engine">>]

\* verify() without its this.assertGeoPointIsTheClaimedOne() line.
verifySkipsClaimCheck(this) ==
    [outcome |-> superVerify(this), events |-> <<"engine">>]

\* verify() with super.verify() in a try/catch that only logs the error.
verifySwallowsEngineError(this) ==
    [outcome |-> assertGeoPointIsTheClaimedOne(this), events |-> <<"engine", "bind">>]

\* verify() that calls the engine once more when it rejected the proof.
verifyRetriesEngine(this) ==
    LET s == superVerify(this) IN
    IF s # "ok"
    THEN [outcome |-> superVerify(this), events |-> <<"engine", "engine">>]
    ELSE [outcome |-> assertGeoPointIsTheClaimedOne(this), events |-> <<"engine", "bind">>]

\* verify() with the claim check before the engine's check.
verifyBindFirst(this) ==
    LET b == assertGeoPointIsTheClaimedOne(this) IN
    IF b # "ok"
    THEN [outcome |-> b, events |-> <<"bind">>]
    ELSE [outcome |-> superVerify(this), events |-> <<"bind", "engine">>]

\* verify(): super.verify(); this.assertGeoPointIsTheClaimedOne().
\* A throw of super.verify() ends the call before the claim check.
verify(this) ==
    LET s == superVerify(this) IN
    IF s # "ok"
    THEN [outcome |-> s, events |-> <<"engine">>]
    ELSE [outcome |-> assertGeoPointIsTheClaimedOne(this), events |-> <<"engine", "bind">>]

\* ZKGeoPointProviderCircuitProof.verify(): the same chain on the source kind.
providerVerify(this) ==
    LET s == superVerify(this) IN
    IF s # "ok"
    THEN [outcome |-> s, events |-> <<"engine">>]
    ELSE [outcome |-> IF this.proof.geoPointHash # hash(this.claimedZKGeoPoint)
                      THEN "ClaimMismatch" ELSE "ok",
          events |-> <<"engine", "bind">>]

\* The key under which the middleware stores an instance's success marker.
cacheKey(w) == w

\* @CachingProofVerificationMiddleware: a stored success returns at once;
\* otherwise the decorated verify() runs and only its success is stored.
CachingProofVerificationMiddleware(w, c) ==
    IF cacheKey(w) \in c
    THEN [outcome |-> "ok", events |-> <<"hit">>, cache |-> c]
    ELSE LET r == IF wrappers[w].kind = "exact"
                  THEN verify(wrappers[w])
                  ELSE providerVerify(wrappers[w])
         IN [outcome |-> r.outcome,
             events |-> <<"miss">> \o r.events,
             cache |-> IF r.outcome = "ok" THEN c \cup {cacheKey(w)} ELSE c]

\* The accessor running the undecorated chain itself, past the middleware.
zkGeoPointBypassesCache(w, c) ==
    LET r == verify(wrappers[w]) IN
    IF r.outcome = "ok"
    THEN [outcome |-> "ok", claim |-> wrappers[w].claimedZKGeoPoint,
          events |-> <<"miss">> \o r.events \o <<"return">>, cache |-> c]
    ELSE [outcome |-> r.outcome, claim |-> NoClaim,
          events |-> <<"miss">> \o r.events, cache |-> c]

\* The accessor without its this.verify() line.
zkGeoPointUnverified(w, c) ==
    [outcome |-> "ok", claim |-> wrappers[w].claimedZKGeoPoint,
     events |-> <<"return">>, cache |-> c]

\* The accessor with claimedZKGeoPoint as a static field: it returns the
\* claim of the instance constructed last.
zkGeoPointShared(w, c) ==
    LET r == CachingProofVerificationMiddleware(w, c) IN
    IF r.outcome = "ok"
    THEN [outcome |-> "ok", claim |-> wrappers[Len(wrappers)].claimedZKGeoPoint,
          events |-> r.events \o <<"return">>, cache |-> r.cache]
    ELSE [outcome |-> r.outcome, claim |-> NoClaim,
          events |-> r.events, cache |-> r.cache]

\* get zkGeoPoint(): this.verify(); return this.claimedZKGeoPoint.
zkGeoPoint(w, c) ==
    LET r == CachingProofVerificationMiddleware(w, c) IN
    IF r.outcome = "ok"
    THEN [outcome |-> "ok", claim |-> wrappers[w].claimedZKGeoPoint,
          events |-> r.events \o <<"return">>, cache |-> r.cache]
    ELSE [outcome |-> r.outcome, claim |-> NoClaim,
          events |-> r.events, cache |-> r.cache]

\* fromJSON(jsonProof): ExactGeoPointCircuitProof.fromJSON(jsonProof).
fromJSON(jsonProof) ==
    [geoPointHash |-> jsonProof.publicOutput[1], valid |-> jsonProof.proof = "ok"]

\* get zkProof(): the wrapper's underlying proof handle.
zkProof(w) == wrappers[w].proof

\* The derivation reading the source's fields without verifying it.
fromZKGeoPointProviderProofUnchecked(proof, c) ==
    [outcome |-> "ok", events |-> <<"zkProof", "transform">>, cache |-> c,
     verified |-> "skipped", claim |-> wrappers[proof].claimedZKGeoPoint,
     input |-> zkProof(proof)]

\* The derivation without its explicit proof.verify() line.
fromZKGeoPointProviderProofNoExplicitVerify(proof, c) ==
    LET g == zkGeoPoint(proof, c) IN
    IF g.outcome # "ok"
    THEN [outcome |-> g.outcome, events |-> g.events, cache |-> g.cache,
          verified |-> g.outcome, claim |-> NoClaim, input |-> NoHandle]
    ELSE [outcome |-> "ok", events |-> g.events \o <<"zkProof", "transform">>,
          cache |-> g.cache, verified |-> g.outcome,
          claim |-> g.claim, input |-> zkProof(proof)]

\* fromZKGeoPointProviderProof(proof), up to its await: proof.verify();
\* proof.zkGeoPoint; proof.zkProof; then the call of
\* ExactGeoPointCircuit.fromGeoPointProvider.  A throw rejects the promise
\* and ends the body.
fromZKGeoPointProviderProof(proof, c) ==
    LET v == CachingProofVerificationMiddleware(proof, c) IN
    IF v.outcome # "ok"
    THEN [outcome |-> v.outcome, events |-> v.events, cache |-> v.cache,
          verified |-> v.outcome, claim |-> NoClaim, input |-> NoHandle]
    ELSE LET g == zkGeoPoint(proof, v.cache) IN
         IF g.outcome # "ok"
         THEN [outcome |-> g.outcome, events |-> v.events \o g.events,
               cache |-> g.cache, verified |-> v.outcome,
               claim |-> NoClaim, input |-> NoHandle]
         ELSE [outcome |-> "ok",
               events |-> v.events \o g.events \o <<"zkProof", "transform">>,
               cache |-> g.cache, verified |-> v.outcome,
               claim |-> g.claim, input |-> zkProof(proof)]

\* ------------------------------------------------------------ bookkeeping
Count(events, e) == Cardinality({i \in DOMAIN events : events[i] = e})

\* The engine and claim-binding checks an operation on w ran.
Charge(w, events) ==
    [calls EXCEPT ![w] = [engine |-> @.engine + Count(events, "engine"),
                          bind |-> @.bind + Count(events, "bind")]]

Verified(w, outcome) ==
    IF outcome = "ok" THEN everVerified \cup {w} ELSE everVerified

\* The engine checks run so far, over all instances.
RECURSIVE EngineSum(_)
EngineSum(n) == IF n = 0 THEN 0 ELSE calls[n].engine + EngineSum(n - 1)
EngineTotal == EngineSum(MaxWrappers)

\* ---------------------------------------------------------------- initial
Init ==
    /\ wrappers = <<>>
    /\ args = <<>>
    /\ cache = {}
    /\ calls = [w \in 1 .. MaxWrappers |-> [engine |-> 0, bind |-> 0]]
    /\ everVerified = {}
    /\ derivs = <<>>
    /\ transformCalls = 0
    /\ lastOp = NoOp

\* ---------------------------------------------------------------- actions
\* new ZKExactGeoPointCircuitProof(zkGeoPoint, proof)
New(point, proof) ==
    /\ Len(wrappers) < MaxWrappers
    /\ wrappers' = Append(wrappers, constructor(point, proof))
    /\ args' = Append(args, [point |-> point, proof |-> proof])
    /\ lastOp' = [NoOp EXCEPT !.op = "new", !.w = Len(wrappers) + 1]
    /\ UNCHANGED <<cache, calls, everVerified, derivs, transformCalls>>

\* new ZKGeoPointProviderCircuitProof(zkGeoPoint, proof)
NewProvider(point, proof) ==
    /\ Len(wrappers) < MaxWrappers
    /\ wrappers' = Append(wrappers, providerConstructor(point, proof))
    /\ args' = Append(args, [point |-> point, proof |-> proof])
    /\ lastOp' = [NoOp EXCEPT !.op = "newProvider", !.w = Len(wrappers) + 1]
    /\ UNCHANGED <<cache, calls, everVerified, derivs, transformCalls>>

\* verify() dropping the proof handle of an instance that failed.
VerifyReleasesProof(w) ==
    /\ w \in Instances
    /\ w \in cache \/ EngineTotal < MaxEngineCalls
    /\ LET r == CachingProofVerificationMiddleware(w, cache) IN
        /\ cache' = r.cache
        /\ calls' = Charge(w, r.events)
        /\ everVerified' = Verified(w, r.outcome)
        /\ wrappers' = IF r.outcome = "ok" THEN wrappers
                        ELSE [wrappers EXCEPT ![w].proof = NoHandle]
        /\ lastOp' = [NoOp EXCEPT !.op = "verify", !.w = w,
                                  !.outcome = r.outcome, !.events = r.events]
    /\ UNCHANGED <<args, derivs, transformCalls>>

\* w.verify()
Verify(w) ==
    /\ w \in Instances
    /\ w \in cache \/ EngineTotal < MaxEngineCalls
    /\ LET r == CachingProofVerificationMiddleware(w, cache) IN
        /\ cache' = r.cache
        /\ calls' = Charge(w, r.events)
        /\ everVerified' = Verified(w, r.outcome)
        /\ lastOp' = [NoOp EXCEPT !.op = "verify", !.w = w,
                                  !.outcome = r.outcome, !.events = r.events]
    /\ UNCHANGED <<wrappers, args, derivs, transformCalls>>

\* w.zkGeoPoint
Get(w) ==
    /\ w \in Instances
    /\ w \in cache \/ EngineTotal < MaxEngineCalls
    /\ LET r == zkGeoPoint(w, cache) IN
        /\ cache' = r.cache
        /\ calls' = Charge(w, r.events)
        /\ everVerified' = Verified(w, r.outcome)
        /\ lastOp' = [NoOp EXCEPT !.op = "get", !.w = w, !.outcome = r.outcome,
                                  !.claim = r.claim, !.events = r.events]
    /\ UNCHANGED <<wrappers, args, derivs, transformCalls>>

\* fromJSON returning a wrapper built around the deserialized handle.
FromJSONWraps(jsonProof) ==
    /\ Len(wrappers) < MaxWrappers
    /\ wrappers' = Append(wrappers, constructor(NoClaim, fromJSON(jsonProof)))
    /\ args' = Append(args, [point |-> NoClaim, proof |-> fromJSON(jsonProof)])
    /\ lastOp' = [NoOp EXCEPT !.op = "fromJSON", !.handle = fromJSON(jsonProof)]
    /\ UNCHANGED <<cache, calls, everVerified, derivs, transformCalls>>

\* ZKExactGeoPointCircuitProof.fromJSON(jsonProof)
FromJSON(jsonProof) ==
    /\ lastOp' = [NoOp EXCEPT !.op = "fromJSON", !.handle = fromJSON(jsonProof)]
    /\ UNCHANGED <<wrappers, args, cache, calls, everVerified, derivs, transformCalls>>

\* ZKExactGeoPointCircuitProof.fromZKGeoPointProviderProof(src), to its await
DeriveStart(src) ==
    /\ src \in Instances
    /\ wrappers[src].kind = "provider"
    /\ Len(derivs) < MaxDerivations
    /\ src \in cache \/ EngineTotal < MaxEngineCalls
    /\ LET r == fromZKGeoPointProviderProof(src, cache) IN
        /\ cache' = r.cache
        /\ calls' = Charge(src, r.events)
        /\ everVerified' = Verified(src, r.verified)
        /\ transformCalls' = transformCalls + Count(r.events, "transform")
        /\ derivs' = Append(derivs,
                [state |-> IF r.outcome = "ok" THEN "awaiting" ELSE "rejected",
                 error |-> r.outcome, src |-> src, claim |-> r.claim,
                 input |-> r.input, output |-> NoHandle, result |-> 0])
        /\ lastOp' = [NoOp EXCEPT !.op = "deriveStart", !.w = src,
                                  !.outcome = r.outcome, !.events = r.events]
    /\ UNCHANGED <<wrappers, args>>

\* The derivation handing the source's success marker on to its result.
DeriveResolveTrusted(d, exactGeoPointProof) ==
    /\ d \in DOMAIN derivs
    /\ derivs[d].state = "awaiting"
    /\ Len(wrappers) < MaxWrappers
    /\ wrappers' = Append(wrappers, constructor(derivs[d].claim, exactGeoPointProof))
    /\ args' = Append(args, [point |-> derivs[d].claim, proof |-> exactGeoPointProof])
    /\ derivs' = [derivs EXCEPT ![d].state = "resolved",
                                ![d].output = exactGeoPointProof,
                                ![d].result = Len(wrappers) + 1]
    /\ cache' = cache \cup {cacheKey(Len(wrappers) + 1)}
    /\ lastOp' = [NoOp EXCEPT !.op = "deriveResolve", !.w = Len(wrappers) + 1,
                              !.handle = exactGeoPointProof]
    /\ UNCHANGED <<calls, everVerified, transformCalls>>

\* The derivation wrapping the source's handle in place of the awaited one.
DeriveResolveWrapsSource(d, exactGeoPointProof) ==
    /\ d \in DOMAIN derivs
    /\ derivs[d].state = "awaiting"
    /\ Len(wrappers) < MaxWrappers
    /\ wrappers' = Append(wrappers, constructor(derivs[d].claim, derivs[d].input))
    /\ args' = Append(args, [point |-> derivs[d].claim, proof |-> derivs[d].input])
    /\ derivs' = [derivs EXCEPT ![d].state = "resolved",
                                ![d].output = exactGeoPointProof,
                                ![d].result = Len(wrappers) + 1]
    /\ lastOp' = [NoOp EXCEPT !.op = "deriveResolve", !.w = Len(wrappers) + 1,
                              !.handle = exactGeoPointProof]
    /\ UNCHANGED <<cache, calls, everVerified, transformCalls>>

\* The awaited transformation resolves with a proof handle:
\* return new ZKExactGeoPointCircuitProof(zkGeoPoint, exactGeoPointProof)
DeriveResolve(d, exactGeoPointProof) ==
    /\ d \in DOMAIN derivs
    /\ derivs[d].state = "awaiting"
    /\ Len(wrappers) < MaxWrappers
    /\ wrappers' = Append(wrappers, constructor(derivs[d].claim, exactGeoPointProof))
    /\ args' = Append(args, [point |-> derivs[d].claim, proof |-> exactGeoPointProof])
    /\ derivs' = [derivs EXCEPT ![d].state = "resolved",
                                ![d].output = exactGeoPointProof,
                                ![d].result = Len(wrappers) + 1]
    /\ lastOp' = [NoOp EXCEPT !.op = "deriveResolve", !.w = Len(wrappers) + 1,
                              !.handle = exactGeoPointProof]
    /\ UNCHANGED <<cache, calls, everVerified, transformCalls>>

\* The derivation catching the rejection and returning a wrapper without a
\* proof handle.
DeriveRejectPartial(d) ==
    /\ d \in DOMAIN derivs
    /\ derivs[d].state = "awaiting"
    /\ Len(wrappers) < MaxWrappers
    /\ wrappers' = Append(wrappers, constructor(derivs[d].claim, NoHandle))
    /\ args' = Append(args, [point |-> derivs[d].claim, proof |-> NoHandle])
    /\ derivs' = [derivs EXCEPT ![d].state = "rejected",
                                ![d].error = "DerivationFailure"]
    /\ lastOp' = [NoOp EXCEPT !.op = "deriveReject", !.w = derivs[d].src,
                              !.outcome = "DerivationFailure"]
    /\ UNCHANGED <<cache, calls, everVerified, transformCalls>>

\* The awaited transformation fails: the rejection passes to the caller.
DeriveReject(d) ==
    /\ d \in DOMAIN derivs
    /\ derivs[d].state = "awaiting"
    /\ derivs' = [derivs EXCEPT ![d].state = "rejected",
                                ![d].error = "DerivationFailure"]
    /\ lastOp' = [NoOp EXCEPT !.op = "deriveReject", !.w = derivs[d].src,
                              !.outcome = "DerivationFailure"]
    /\ UNCHANGED <<wrappers, args, cache, calls, everVerified, transformCalls>>

Next ==
    \/ \E c \in Claims, p \in Handles : New(c, p)
    \/ \E c \in Claims, p \in Handles : NewProvider(c, p)
    \/ \E w \in 1 .. MaxWrappers : Verify(w)
    \/ \E w \in 1 .. MaxWrappers : Get(w)
    \/ \E w \in 1 .. MaxWrappers : DeriveStart(w)
    \/ \E d \in 1 .. MaxDerivations, h \in Handles : DeriveResolve(d, h)
    \/ \E d \in 1 .. MaxDerivations : DeriveReject(d)

Spec == Init /\ [][Next]_vars

\* The same program with the static deserializer among its operations.
NextJSON ==
    \/ Next
    \/ \E j \in JsonProofs : FromJSON(j)

SpecJSON == Init /\ [][NextJSON]_vars

\* ------------------------------------------------------------- properties
\* What the verification chain of an instance has to find: the engine accepts
\* the handle the constructor was given, and its commitment is the hash of
\* the claim the constructor was given.
EngineAccepts(w) == args[w].proof.valid
CommitmentMatches(w) == args[w].proof.geoPointHash = hash(args[w].point)

IsExact(w) == w \in Instances /\ wrappers[w].kind = "exact"

\* C1: the claim accessor runs verify() before it returns: its first step is
\* the (cached) verification, the claimed value is handed out only after that
\* verification completed without failure on an instance whose proof the
\* engine accepts and whose commitment matches, and when the verification
\* fails the accessor fails with the same error and hands out no value.
C1_AccessorVerifiesFirst ==
    (lastOp.op = "get" /\ IsExact(lastOp.w)) =>
        /\ lastOp.events # <<>>
        /\ lastOp.events[1] \in {"hit", "miss"}
        /\ \A i \in DOMAIN lastOp.events :
              lastOp.events[i] = "return" => i = Len(lastOp.events) /\ i > 1
        /\ lastOp.outcome = "ok" =>
              /\ lastOp.w \in everVerified
              /\ EngineAccepts(lastOp.w) /\ CommitmentMatches(lastOp.w)
        /\ lastOp.outcome # "ok" =>
              /\ lastOp.claim = NoClaim
              /\ Count(lastOp.events, "return") = 0
              /\ ~(EngineAccepts(lastOp.w) /\ CommitmentMatches(lastOp.w))
        /\ lastOp.claim # NoClaim => lastOp.outcome = "ok"

\* An accessor read of a wrapper whose commitment is not the hash of its
\* claim has failed.
C1_Witness ==
    /\ lastOp.op = "get" /\ IsExact(lastOp.w)
    /\ lastOp.outcome = "ClaimMismatch"
    /\ lastOp.claim = NoClaim

\* C2 as stated: whenever the commitment in the proof differs from the hash
\* of the claim, verify() fails with ClaimMismatch, whether or not the engine
\* accepts the proof.
C2_MismatchAlwaysClaimMismatch ==
    (lastOp.op = "verify" /\ IsExact(lastOp.w) /\ ~CommitmentMatches(lastOp.w)) =>
        lastOp.outcome = "ClaimMismatch"

\* C2 amended: whenever the commitment in the proof differs from the hash of
\* the claim, verify() fails, whether or not the engine accepts the proof; the
\* failure is ClaimMismatch when the engine accepts the proof, and
\* CryptographicVerificationFailure (raised before the claim check) when it
\* rejects the proof.
C2_MismatchFails ==
    (lastOp.op = "verify" /\ IsExact(lastOp.w) /\ ~CommitmentMatches(lastOp.w)) =>
        /\ lastOp.outcome # "ok"
        /\ lastOp.w \notin cache
        /\ EngineAccepts(lastOp.w) => lastOp.outcome = "ClaimMismatch"
        /\ ~EngineAccepts(lastOp.w) =>
              lastOp.outcome = "CryptographicVerificationFailure"

\* verify() has run on a wrapper with an accepted proof whose commitment
\* differs from the hash of the claim.
C2_Witness ==
    /\ lastOp.op = "verify" /\ IsExact(lastOp.w)
    /\ ~CommitmentMatches(lastOp.w) /\ EngineAccepts(lastOp.w)
    /\ lastOp.outcome = "ClaimMismatch"

\* C3: when the commitment of the proof given to the constructor is the hash
\* of the claim given to it and the engine accepts the proof, verify()
\* succeeds and the accessor succeeds and returns exactly that claim.
C3_ValidPairVerifies ==
    (/\ lastOp.op \in {"verify", "get"} /\ IsExact(lastOp.w)
     /\ CommitmentMatches(lastOp.w) /\ EngineAccepts(lastOp.w)) =>
        /\ lastOp.outcome = "ok"
        /\ lastOp.op = "get" => lastOp.claim = args[lastOp.w].point

\* The accessor has returned the claim of a valid pair.
C3_Witness ==
    /\ lastOp.op = "get" /\ IsExact(lastOp.w)
    /\ CommitmentMatches(lastOp.w) /\ EngineAccepts(lastOp.w)
    /\ lastOp.outcome = "ok"
    /\ lastOp.claim = args[lastOp.w].point

VerifyErrors == {"CryptographicVerificationFailure", "ClaimMismatch"}

\* C4: verify() is idempotent: when verify() runs on an instance right after
\* a verify() on the same instance, it has the same outcome, and after a
\* success the second call is answered from the cache without an engine
\* check, so the instance's engine call count stays at 1.
C4_VerifyIdempotent ==
    [][\A w \in 1 .. MaxWrappers :
         (lastOp.op = "verify" /\ lastOp.w = w /\ Verify(w)) =>
            /\ lastOp'.outcome = lastOp.outcome
            /\ lastOp.outcome = "ok" =>
                  /\ lastOp'.events = <<"hit">>
                  /\ calls[w].engine = 1
                  /\ calls'[w].engine = 1]_vars

\* A verify() has been answered from the cache of an instance whose engine
\* check ran once.
C4_Witness ==
    /\ lastOp.op = "verify" /\ IsExact(lastOp.w)
    /\ lastOp.outcome = "ok" /\ lastOp.events = <<"hit">>
    /\ calls[lastOp.w].engine = 1

\* C5: cache isolation: an instance holds a success marker, or has a verify()
\* or accessor read report success, only after its own engine check and its
\* own claim-binding check ran, whatever other instances (also ones with the
\* same proof and claim) were verified before.
C5_CacheIsolation ==
    \A b \in Instances :
        /\ b \in cache =>
              /\ b \in everVerified
              /\ calls[b].engine >= 1 /\ calls[b].bind >= 1
        /\ (lastOp.op \in {"verify", "get"} /\ lastOp.w = b /\ lastOp.outcome = "ok") =>
              calls[b].engine >= 1 /\ calls[b].bind >= 1

\* Instance b, with the same proof and claim as the verified instance a, has
\* just been verified by its own uncached chain.
C5_Witness ==
    \E a, b \in Instances :
        /\ a # b /\ wrappers[a] = wrappers[b] /\ IsExact(a)
        /\ a \in cache /\ calls[a].engine = 1
        /\ lastOp.op = "verify" /\ lastOp.w = b /\ lastOp.outcome = "ok"
        /\ lastOp.events = <<"miss", "engine", "bind">>

\* C6: once a wrapper of claim c and proof p has verified successfully, a
\* wrapper of the same proof p and a claim of a different hash is never
\* marked or reported valid, and verify() on it fails with ClaimMismatch.
C6_NoStaleValid ==
    \A a, b \in Instances :
        (/\ IsExact(a) /\ IsExact(b) /\ a \in everVerified
         /\ args[b].proof = args[a].proof
         /\ hash(args[b].point) # hash(args[a].point)) =>
            /\ b \notin cache
            /\ b \notin everVerified
            /\ (lastOp.op = "verify" /\ lastOp.w = b) => lastOp.outcome = "ClaimMismatch"

\* The second wrapper, built after the first from the same proof and a
\* changed claim, has failed verify() with ClaimMismatch.
C6_Witness ==
    \E a, b \in Instances :
        /\ a < b /\ IsExact(a) /\ IsExact(b) /\ a \in everVerified
        /\ args[b].proof = args[a].proof
        /\ hash(args[b].point) # hash(args[a].point)
        /\ lastOp.op = "verify" /\ lastOp.w = b /\ lastOp.outcome = "ClaimMismatch"

\* A derivation whose call of the external transformation was made.
Transformed(d) == derivs[d].input # NoHandle

\* C7: the derivation begins with verify() on the source; when that fails the
\* derivation fails with the same error and the external transformation is
\* not invoked; every invocation of the transformation comes after a
\* successful verification of its source.
C7_DerivationTrust ==
    /\ lastOp.op = "deriveStart" =>
          /\ lastOp.events # <<>>
          /\ lastOp.events[1] \in {"hit", "miss"}
          /\ lastOp.outcome # "ok" => Count(lastOp.events, "transform") = 0
          /\ \A i \in DOMAIN lastOp.events :
                lastOp.events[i] = "transform" =>
                    /\ i = Len(lastOp.events)
                    /\ lastOp.w \in everVerified
                    /\ EngineAccepts(lastOp.w) /\ CommitmentMatches(lastOp.w)
    /\ \A d \in DOMAIN derivs :
          /\ derivs[d].error \in VerifyErrors =>
                derivs[d].state = "rejected" /\ ~Transformed(d)
          /\ Transformed(d) =>
                /\ derivs[d].src \in everVerified
                /\ EngineAccepts(derivs[d].src) /\ CommitmentMatches(derivs[d].src)
    /\ transformCalls = Cardinality({d \in DOMAIN derivs : Transformed(d)})

\* A derivation from a source that fails verification has been rejected
\* without a call of the transformation.
C7_Witness ==
    /\ lastOp.op = "deriveStart" /\ lastOp.outcome \in VerifyErrors
    /\ transformCalls = 0
    /\ \E d \in DOMAIN derivs : derivs[d].state = "rejected" /\ derivs[d].src = lastOp.w

\* C8: the wrapper a derivation returns is unverified: when it is returned it
\* has no success marker and no check of it has run; it gets a marker only by
\* its own engine check and claim check; and a verify() or accessor read on it
\* succeeds exactly when the engine accepts its own proof handle and that
\* handle's commitment is the hash of its claim, however the source fared.
C8_DerivedUnverified ==
    \A d \in DOMAIN derivs :
        derivs[d].state = "resolved" =>
            LET r == derivs[d].result IN
            /\ r \in Instances /\ args[r].proof = derivs[d].output
            /\ (lastOp.op = "deriveResolve" /\ lastOp.w = r) =>
                  /\ r \notin cache /\ r \notin everVerified
                  /\ calls[r].engine = 0 /\ calls[r].bind = 0
            /\ r \in cache => calls[r].engine >= 1 /\ calls[r].bind >= 1
            /\ (lastOp.op \in {"verify", "get"} /\ lastOp.w = r) =>
                  /\ lastOp.outcome = "ok" <=> (EngineAccepts(r) /\ CommitmentMatches(r))
                  /\ lastOp.events[1] = "miss" =>
                        /\ lastOp.events[2] = "engine"
                        /\ EngineAccepts(r) => lastOp.events[3] = "bind"

\* The first verify() of a derived wrapper has run the engine check on the
\* wrapper's own handle and failed, though the source is verified.
C8_Witness ==
    \E d \in DOMAIN derivs :
        /\ derivs[d].state = "resolved"
        /\ derivs[d].src \in cache
        /\ lastOp.op = "verify" /\ lastOp.w = derivs[d].result
        /\ lastOp.events = <<"miss", "engine">>
        /\ lastOp.outcome = "CryptographicVerificationFailure"

C10_NoRefail ==
    [][\A w \in 1 .. MaxWrappers :
         (w \in everVerified /\ (Verify(w) \/ Get(w))) =>
            /\ lastOp'.outcome = "ok"
            /\ lastOp'.op = "get" => lastOp'.claim = args[w].point]_vars

\* An accessor read after a successful verification has returned the claim.
C10_Witness ==
    /\ lastOp.op = "get" /\ IsExact(lastOp.w)
    /\ lastOp.events = <<"hit", "return">>
    /\ lastOp.outcome = "ok" /\ lastOp.claim = args[lastOp.w].point

\* C11: cache soundness: an instance holds a success marker only if its own
\* full chain completed successfully (the engine accepted its proof and the
\* proof's commitment is the hash of its claim); a verify() or accessor read
\* that fails leaves no marker, and every failing call has run the chain
\* again from the engine check and failed with the chain's own verdict.
C11_CacheSound ==
    /\ \A w \in Instances :
          w \in cache =>
              /\ w \in everVerified
              /\ EngineAccepts(w) /\ CommitmentMatches(w)
    /\ (lastOp.op \in {"verify", "get"} /\ lastOp.outcome # "ok") =>
          /\ lastOp.w \notin cache
          /\ Len(lastOp.events) >= 2
          /\ lastOp.events[1] = "miss" /\ lastOp.events[2] = "engine"
          /\ calls[lastOp.w].engine >= 1
          /\ lastOp.outcome = IF EngineAccepts(lastOp.w)
                               THEN "ClaimMismatch"
                               ELSE "CryptographicVerificationFailure"

\* A second verify() of a failing instance has run the engine check again
\* and failed again; nothing was stored.
C11_Witness ==
    /\ lastOp.op = "verify" /\ IsExact(lastOp.w)
    /\ lastOp.outcome = "ClaimMismatch"
    /\ calls[lastOp.w].engine = 2 /\ calls[lastOp.w].bind = 2
    /\ lastOp.w \notin cache

\* C12: in an uncached verify() the engine's check runs first, once, and the
\* claim check runs only after the engine accepted the proof; when the engine
\* rejects the proof, verify() fails with CryptographicVerificationFailure,
\* the claim check is not evaluated and the engine is not called again.
C12_EngineThenBinding ==
    (lastOp.op = "verify" /\ IsExact(lastOp.w) /\ lastOp.events[1] = "miss") =>
        /\ Len(lastOp.events) >= 2 /\ lastOp.events[2] = "engine"
        /\ Count(lastOp.events, "engine") = 1
        /\ \A i \in DOMAIN lastOp.events :
              lastOp.events[i] = "bind" => i = 3 /\ EngineAccepts(lastOp.w)
        /\ EngineAccepts(lastOp.w) => Count(lastOp.events, "bind") = 1
        /\ ~EngineAccepts(lastOp.w) =>
              /\ lastOp.outcome = "CryptographicVerificationFailure"
              /\ lastOp.events = <<"miss", "engine">>
              /\ lastOp.w \notin cache

\* verify() of a wrapper with a rejected proof and a differing commitment has
\* failed at the engine check, before the claim check.
C12_Witness ==
    /\ lastOp.op = "verify" /\ IsExact(lastOp.w)
    /\ ~EngineAccepts(lastOp.w) /\ ~CommitmentMatches(lastOp.w)
    /\ lastOp.outcome = "CryptographicVerificationFailure"
    /\ lastOp.events = <<"miss", "engine">>
    /\ calls[lastOp.w].bind = 0

\* C13: when the external transformation of a derivation fails, the
\* derivation is rejected with that failure, no wrapper is constructed and
\* the transformation is not called again; a rejected derivation stays
\* rejected and never yields a wrapper.
C13_FailedTransformNoWrapper ==
    [][/\ (lastOp'.op = "deriveReject" /\ derivs' # derivs) =>
            /\ wrappers' = wrappers /\ args' = args
            /\ transformCalls' = transformCalls
            /\ cache' = cache /\ calls' = calls
            /\ lastOp'.outcome = "DerivationFailure"
            /\ \E d \in DOMAIN derivs :
                  /\ derivs[d].state = "awaiting"
                  /\ derivs'[d].state = "rejected"
                  /\ derivs'[d].error = "DerivationFailure"
                  /\ derivs'[d].result = 0 /\ derivs'[d].output = NoHandle
       /\ \A d \in DOMAIN derivs :
            derivs[d].state = "rejected" => derivs'[d] = derivs[d]]_vars

\* The transformation of a derivation from a verified source has failed: the
\* derivation is rejected and has no result.
C13_Witness ==
    /\ lastOp.op = "deriveReject" /\ lastOp.outcome = "DerivationFailure"
    /\ \E d \in DOMAIN derivs :
          /\ derivs[d].state = "rejected" /\ derivs[d].error = "DerivationFailure"
          /\ derivs[d].result = 0 /\ Transformed(d)
          /\ derivs[d].src \in cache
    /\ transformCalls = 1

\* C14: a derivation that succeeds returns a new exact-point wrapper whose
\* claim is the source wrapper's claim and whose proof handle is the handle
\* the transformation returned, the transformation having been given the
\* source wrapper's own handle; the source's proof and claim are as its
\* constructor set them.
C14_DerivedCarriesClaim ==
    \A d \in DOMAIN derivs :
        derivs[d].state = "resolved" =>
            LET r == derivs[d].result
                src == derivs[d].src
            IN  /\ r \in Instances /\ r # src
                /\ wrappers[r].kind = "exact"
                /\ wrappers[r].claimedZKGeoPoint = args[src].point
                /\ wrappers[r].proof = derivs[d].output
                /\ derivs[d].output \in Handles
                /\ derivs[d].input = args[src].proof
                /\ wrappers[src] = providerConstructor(args[src].point, args[src].proof)

\* A derivation has returned a wrapper whose handle differs from the
\* source's handle.
C14_Witness ==
    \E d \in DOMAIN derivs :
        /\ derivs[d].state = "resolved"
        /\ lastOp.op = "deriveResolve" /\ lastOp.w = derivs[d].result
        /\ wrappers[derivs[d].result].proof # wrappers[derivs[d].src].proof
        /\ wrappers[derivs[d].result].claimedZKGeoPoint
              = wrappers[derivs[d].src].claimedZKGeoPoint

C16_FieldsNeverChange ==
    [][/\ \A w \in DOMAIN wrappers :
            /\ w \in DOMAIN wrappers'
            /\ wrappers'[w] = wrappers[w]
            /\ args'[w] = args[w]
       /\ \A w \in DOMAIN wrappers' :
            /\ wrappers'[w].proof = args'[w].proof
            /\ wrappers'[w].claimedZKGeoPoint = args'[w].point]_vars

\* A wrapper that failed verify() twice still holds the proof and claim it
\* was constructed with.
C16_Witness ==
    /\ lastOp.op = "verify" /\ IsExact(lastOp.w)
    /\ lastOp.outcome = "CryptographicVerificationFailure"
    /\ calls[lastOp.w].engine = 2
    /\ wrappers[lastOp.w].proof = args[lastOp.w].proof
    /\ wrappers[lastOp.w].claimedZKGeoPoint = args[lastOp.w].point

\* The requests for verification an operation made: each is answered by the
\* middleware from the cache or by running the chain.
Requests(events) == Count(events, "hit") + Count(events, "miss")

\* C17: a derivation that reaches the external transformation has requested
\* verification of its source twice before it, first by proof.verify() and
\* then through the accessor proof.zkGeoPoint, the second request being
\* answered from the cache; the transformation call is the last step; and a
\* derivation runs the engine's check on its source at most once.
C17_SourceVerifiedTwice ==
    lastOp.op = "deriveStart" =>
        /\ Count(lastOp.events, "engine") <= 1
        /\ Count(lastOp.events, "transform") <= 1
        /\ lastOp.outcome # "ok" =>
              Requests(lastOp.events) = 1 /\ Count(lastOp.events, "transform") = 0
        /\ lastOp.outcome = "ok" =>
              LET n == Len(lastOp.events) IN
              /\ Requests(lastOp.events) = 2
              /\ lastOp.events[1] \in {"hit", "miss"}
              /\ n >= 5
              /\ lastOp.events[n] = "transform"
              /\ lastOp.events[n - 1] = "zkProof"
              /\ lastOp.events[n - 2] = "return"
              /\ lastOp.events[n - 3] = "hit"

\* A derivation from a source not verified before has run the chain once,
\* answered the accessor from the cache and then called the transformation.
C17_Witness ==
    /\ lastOp.op = "deriveStart" /\ lastOp.outcome = "ok"
    /\ lastOp.events = <<"miss", "engine", "bind", "hit", "return", "zkProof", "transform">>
    /\ calls[lastOp.w].engine = 1

TypeOK ==
    /\ Len(wrappers) <= MaxWrappers
    /\ Len(args) = Len(wrappers)
    /\ cache \subseteq Instances
    /\ everVerified \subseteq Instances
    /\ lastOp.outcome \in Outcomes
====
